---- MODULE Spec2Model ----
(***************************************************************************)
(* Bulk-operation controller and reconciliation parser of                  *)
(* gempages/go-shopify-graphql.                                            *)
(*                                                                         *)
(* Spec      : one caller running the controller's operations against the  *)
(*             remote "current bulk operation" slot, which the service and *)
(*             other callers change between the caller's requests.         *)
(* SpecParse : parseBulkQueryResult reading a result stream line by line.  *)
(***************************************************************************)
EXTENDS Integers, Sequences, FiniteSets, TLC

VARIABLES
    remote,     \* the service's current bulk operation (CurrentBulkOperation)
    nextId,     \* number of the next job the service creates
    stack,      \* the caller's call stack: frames [fn, pc, q, id]
    rv,         \* the values returned by the call that returned last
    ret,        \* the top-level call: its name, argument, ctx and, once done, result
    log,        \* the requests the current top-level call has sent, in order
    pstate,     \* the state of one parseBulkQueryResult call
    dstate,     \* the state of one Client.do call
    cstate      \* package graphqlclient: apiPathPrefix and the clients built

vars == <<remote, nextId, stack, rv, ret, log, pstate, dstate, cstate>>

ctlVars == <<remote, nextId, stack, rv, ret, log>>

(***************************************************************************)
(* Bounds                                                                  *)
(***************************************************************************)
MaxJobs == 2

MaxLog == 6

(***************************************************************************)
(* Values                                                                  *)
(***************************************************************************)
NilID == "<nil>"

NoErr == "<nil>"

JobID(n) == "gid://shopify/BulkOperation/" \o ToString(n)

JobIDs == { JobID(n) : n \in 1..MaxJobs }

ResultURL(id) == "https://results/" \o id

\* The zero value of CurrentBulkOperation: what a poll yields when the service
\* has no bulk operation, and what GetCurrentBulkQuery returns on an error.
ZeroOp == [id |-> NilID, status |-> "", errorCode |-> "", objectCount |-> "", url |-> ""]

Statuses == {"CREATED", "RUNNING", "CANCELING", "COMPLETED", "FAILED", "CANCELED"}

Terminal == {"COMPLETED", "FAILED", "CANCELED"}

InFlight == {"CREATED", "RUNNING", "CANCELING"}

ZeroRv == [q |-> ZeroOp, err |-> NoErr, url |-> "", id |-> NilID]

Frame(fn, id) == [fn |-> fn, pc |-> "start", q |-> ZeroOp, id |-> id, url |-> ""]

Top == stack[Len(stack)]

Running(fn, pc) == Len(stack) > 0 /\ Top.fn = fn /\ Top.pc = pc

Event(ev, st, id) == [ev |-> ev, st |-> st, id |-> id]

(***************************************************************************)
(* The remote service and the other callers of the same store              *)
(***************************************************************************)
RemoteStart ==
    /\ remote.status = "CREATED"
    /\ remote' = [remote EXCEPT !.status = "RUNNING"]
    /\ UNCHANGED <<nextId, stack, rv, ret, log, pstate, dstate, cstate>>

\* How a job can end COMPLETED: with objects and a result file, without objects
\* (with or without a file), or with an error code.
Completions(id) ==
    { [errorCode |-> "", objectCount |-> "2", url |-> ResultURL(id)],
      [errorCode |-> "", objectCount |-> "0", url |-> ResultURL(id)],
      [errorCode |-> "", objectCount |-> "0", url |-> ""],
      [errorCode |-> "TIMEOUT", objectCount |-> "2", url |-> ResultURL(id)] }

RemoteComplete ==
    /\ remote.status = "RUNNING"
    /\ \E c \in Completions(remote.id) :
         remote' = [remote EXCEPT !.status = "COMPLETED", !.errorCode = c.errorCode,
                                  !.objectCount = c.objectCount, !.url = c.url]
    /\ UNCHANGED <<nextId, stack, rv, ret, log, pstate, dstate, cstate>>

RemoteFail ==
    /\ remote.status = "RUNNING"
    /\ remote' = [remote EXCEPT !.status = "FAILED", !.errorCode = "INTERNAL_SERVER_ERROR"]
    /\ UNCHANGED <<nextId, stack, rv, ret, log, pstate, dstate, cstate>>

RemoteCanceled ==
    /\ remote.status = "CANCELING"
    /\ remote' = [remote EXCEPT !.status = "CANCELED"]
    /\ UNCHANGED <<nextId, stack, rv, ret, log, pstate, dstate, cstate>>

NewJob(n) == [ZeroOp EXCEPT !.id = JobID(n), !.status = "CREATED"]

\* Another caller of the same store submits a job; the service accepts it only
\* when no job is in flight.
OtherSubmit ==
    /\ remote.status \notin InFlight
    /\ nextId <= MaxJobs
    /\ remote' = NewJob(nextId)
    /\ nextId' = nextId + 1
    /\ UNCHANGED <<stack, rv, ret, log, pstate, dstate, cstate>>

(***************************************************************************)
(* Calls and returns                                                       *)
(***************************************************************************)
Pop == SubSeq(stack, 1, Len(stack) - 1)

\* return r from the running function
Return(r) ==
    /\ stack' = Pop
    /\ rv' = r
    /\ ret' = IF Len(stack) = 1 THEN [ret EXCEPT !.done = TRUE, !.val = r] ELSE ret

\* call fn(id) from the running function, which keeps q and continues at cont
CallSub(fn, id, cont, q) ==
    /\ stack' = Append([stack EXCEPT ![Len(stack)].pc = cont, ![Len(stack)].q = q],
                       Frame(fn, id))
    /\ UNCHANGED <<rv, ret>>

Goto(pc, q) ==
    /\ stack' = [stack EXCEPT ![Len(stack)].pc = pc, ![Len(stack)].q = q]
    /\ UNCHANGED <<rv, ret>>

Ops == {"Wait", "Should", "Cancel", "Post", "BulkQuery", "RunOnly", "GetCurrent", "GetResult"}

\* The caller starts one of the controller's operations.
Call ==
    /\ stack = <<>>
    /\ \E fn \in Ops, id \in JobIDs \cup {NilID} :
         /\ (fn \notin {"Should", "GetResult"}) => id = NilID
         /\ stack' = <<Frame(fn, id)>>
         /\ ret' = [op |-> fn, arg |-> id, ctx |-> "live", done |-> FALSE, val |-> ZeroRv]
    /\ rv' = ZeroRv
    /\ log' = <<>>
    /\ UNCHANGED <<remote, nextId, pstate, dstate, cstate>>

\* The caller cancels the ctx of the operation that is running.
CtxCancel ==
    /\ stack # <<>>
    /\ ret.ctx = "live"
    /\ ret' = [ret EXCEPT !.ctx = "cancelled"]
    /\ UNCHANGED <<remote, nextId, stack, rv, log, pstate, dstate, cstate>>

(***************************************************************************)
(* GetCurrentBulkQuery                                                     *)
(***************************************************************************)
\* QueryReplies of a transport that does not look at the ctx
QueryRepliesIgnoreCtx == { [ok |-> TRUE, op |-> remote], [ok |-> FALSE, op |-> ZeroOp] }

\* What the transport can answer to the status query: the service's current
\* operation, or a failure; with a cancelled ctx the request always fails.
QueryReplies ==
    IF ret.ctx = "cancelled"
    THEN { [ok |-> FALSE, op |-> ZeroOp] }
    ELSE { [ok |-> TRUE, op |-> remote], [ok |-> FALSE, op |-> ZeroOp] }

\* a variant of GetCurrentBulkQuery that reports no error
GetCurrentBulkQueryNoError(reply) ==
    IF ~reply.ok
    THEN [q |-> ZeroOp, err |-> NoErr]
    ELSE [q |-> reply.op, err |-> NoErr]

GetCurrentBulkQuery(reply) ==
    IF ~reply.ok
    THEN [q |-> ZeroOp, err |-> "transport"]
    ELSE [q |-> reply.op, err |-> NoErr]

PollEvent(reply) ==
    Event("poll", IF reply.ok THEN reply.op.status ELSE "error", reply.op.id)

\* GetCurrentBulkQuery called by the caller itself
GetCurrentStep ==
    /\ Running("GetCurrent", "start")
    /\ Len(log) < MaxLog
    /\ \E reply \in QueryReplies :
         LET r == GetCurrentBulkQuery(reply) IN
         /\ log' = Append(log, PollEvent(reply))
         /\ Return([ZeroRv EXCEPT !.q = r.q, !.err = r.err])
    /\ UNCHANGED <<remote, nextId, pstate, dstate, cstate>>

(***************************************************************************)
(* WaitForCurrentBulkQuery                                                 *)
(***************************************************************************)
\* WaitLoopCond with the CANCELING test left out
WaitLoopCondNoCanceling(q) == q.status = "CREATED" \/ q.status = "RUNNING"

\* WaitLoopCond that goes on only while the job has not started
WaitLoopCondOnlyCreated(q) == q.status = "CREATED"

WaitLoopCond(q) == q.status = "CREATED" \/ q.status = "RUNNING" \/ q.status = "CANCELING"

\* One poll of the wait: the one before the loop (pc start) or the one at the
\* end of an iteration (pc loop), each followed by the loop's test.
WaitForCurrentBulkQuery ==
    /\ Len(stack) > 0 /\ Top.fn = "Wait" /\ Top.pc \in {"start", "loop"}
    /\ Len(log) < MaxLog
    /\ \E reply \in QueryReplies :
         LET r == GetCurrentBulkQuery(reply) IN
         /\ log' = Append(log, PollEvent(reply))
         /\ IF r.err # NoErr
            THEN Return([ZeroRv EXCEPT !.q = r.q, !.err = "queryError"])
            ELSE IF WaitLoopCond(r.q)
                 THEN Goto("loop", r.q)
                 ELSE Return([ZeroRv EXCEPT !.q = r.q])
    /\ UNCHANGED <<remote, nextId, pstate, dstate, cstate>>

(***************************************************************************)
(* ShouldGetBulkQueryResultURL                                             *)
(***************************************************************************)
IDMismatch(id, q) == id # NilID /\ q.id # id

\* a variant of ShouldStart that cancels the job whose ID does not match
ShouldStartCancelOnMismatch ==
    /\ Running("Should", "start")
    /\ Len(log) < MaxLog
    /\ \E reply \in QueryReplies :
         LET r == GetCurrentBulkQuery(reply) IN
         /\ log' = Append(log, PollEvent(reply))
         /\ IF r.err # NoErr
            THEN Return([ZeroRv EXCEPT !.q = r.q, !.err = r.err]) /\ UNCHANGED remote
            ELSE IF IDMismatch(Top.id, r.q)
                 THEN /\ Return([ZeroRv EXCEPT !.q = r.q, !.err = "idMismatch"])
                      /\ remote' = [remote EXCEPT !.status = "CANCELING"]
                 ELSE CallSub("Wait", NilID, "afterWait", r.q) /\ UNCHANGED remote
    /\ UNCHANGED <<nextId, pstate, dstate, cstate>>

ShouldStart ==
    /\ Running("Should", "start")
    /\ Len(log) < MaxLog
    /\ \E reply \in QueryReplies :
         LET r == GetCurrentBulkQuery(reply) IN
         /\ log' = Append(log, PollEvent(reply))
         /\ IF r.err # NoErr
            THEN Return([ZeroRv EXCEPT !.q = r.q, !.err = r.err])
            ELSE IF IDMismatch(Top.id, r.q)
                 THEN Return([ZeroRv EXCEPT !.q = r.q, !.err = "idMismatch"])
                 ELSE CallSub("Wait", NilID, "afterWait", r.q)
    /\ UNCHANGED <<remote, nextId, pstate, dstate, cstate>>

\* ShouldResult with the error-code test left out
ShouldResultNoErrorCode(q, err) ==
    IF q.status # "COMPLETED"
    THEN [ZeroRv EXCEPT !.q = q, !.err = "didntComplete"]
    ELSE IF q.objectCount = "0"
         THEN [ZeroRv EXCEPT !.q = q, !.err = err]
         ELSE [ZeroRv EXCEPT !.q = q, !.err = err, !.url = q.url]

\* ShouldResult with the object-count test left out
ShouldResultNoObjectCount(q, err) ==
    IF q.status # "COMPLETED"
    THEN [ZeroRv EXCEPT !.q = q, !.err = "didntComplete"]
    ELSE IF q.errorCode # ""
         THEN [ZeroRv EXCEPT !.q = q, !.err = "bulkOperationError"]
         ELSE [ZeroRv EXCEPT !.q = q, !.err = err, !.url = q.url]

\* Lines 288-305: what is returned for the snapshot and error of the wait.  q is
\* kept in the result for the properties; the code returns url and err.
ShouldResult(q, err) ==
    IF q.status # "COMPLETED"
    THEN [ZeroRv EXCEPT !.q = q, !.err = "didntComplete"]
    ELSE IF q.errorCode # ""
         THEN [ZeroRv EXCEPT !.q = q, !.err = "bulkOperationError"]
         ELSE IF q.objectCount = "0"
              THEN [ZeroRv EXCEPT !.q = q, !.err = err]
              ELSE [ZeroRv EXCEPT !.q = q, !.err = err, !.url = q.url]

ShouldAfterWait ==
    /\ Running("Should", "afterWait")
    /\ Return(ShouldResult(rv.q, rv.err))
    /\ UNCHANGED <<remote, nextId, log, pstate, dstate, cstate>>

(***************************************************************************)
(* GetBulkQueryResult                                                      *)
(***************************************************************************)
GetBulkQueryResult ==
    /\ Running("GetResult", "start")
    /\ Len(log) < MaxLog
    /\ \E reply \in QueryReplies :
         LET r == GetCurrentBulkQuery(reply) IN
         /\ log' = Append(log, PollEvent(reply))
         /\ IF r.err # NoErr
            THEN Return([ZeroRv EXCEPT !.err = r.err])
            ELSE IF IDMismatch(Top.id, r.q)
                 THEN Return([ZeroRv EXCEPT !.q = r.q, !.err = "idMismatch"])
                 ELSE Return([ZeroRv EXCEPT !.q = r.q])
    /\ UNCHANGED <<remote, nextId, pstate, dstate, cstate>>

(***************************************************************************)
(* CancelRunningBulkQuery                                                  *)
(***************************************************************************)
\* CancelGuard that cancels whatever job there is
CancelGuardAnyJob(q) == q.status # ""

CancelGuard(q) == q.status = "CREATED" \/ q.status = "RUNNING"

\* CancelLoopCond with the CANCELING test left out
CancelLoopCondNoCanceling(q) == q.status = "CREATED" \/ q.status = "RUNNING"

CancelLoopCond(q) == q.status = "CREATED" \/ q.status = "RUNNING" \/ q.status = "CANCELING"

CancelStart ==
    /\ Running("Cancel", "start")
    /\ Len(log) < MaxLog
    /\ \E reply \in QueryReplies :
         LET r == GetCurrentBulkQuery(reply) IN
         /\ log' = Append(log, PollEvent(reply))
         /\ IF r.err # NoErr
            THEN Return([ZeroRv EXCEPT !.q = r.q, !.err = r.err])
            ELSE IF CancelGuard(r.q)
                 THEN Goto("mutate", r.q)
                 ELSE Return([ZeroRv EXCEPT !.q = r.q])
    /\ UNCHANGED <<remote, nextId, pstate, dstate, cstate>>

\* The replies to bulkOperationCancel(id): a transport failure, user errors, or
\* the cancellation accepted, which the service does only for the current job
\* while it is CREATED or RUNNING.
CancelReplies(id) ==
    IF ret.ctx = "cancelled"
    THEN { [ok |-> FALSE, userErrors |-> <<>>, accepted |-> FALSE] }
    ELSE { [ok |-> FALSE, userErrors |-> <<>>, accepted |-> FALSE],
           [ok |-> TRUE, userErrors |-> <<"cannot be canceled">>, accepted |-> FALSE] }
         \cup IF remote.id = id /\ remote.status \in {"CREATED", "RUNNING"}
              THEN { [ok |-> TRUE, userErrors |-> <<>>, accepted |-> TRUE] }
              ELSE {}

MutationError(reply) ==
    IF ~reply.ok THEN "transport"
    ELSE IF Len(reply.userErrors) > 0 THEN "userErrors"
    ELSE NoErr

CancelMutate ==
    /\ Running("Cancel", "mutate")
    /\ Len(log) < MaxLog
    /\ \E reply \in CancelReplies(Top.q.id) :
         /\ remote' = IF reply.accepted THEN [remote EXCEPT !.status = "CANCELING"] ELSE remote
         /\ log' = Append(log, Event("cancel", MutationError(reply), Top.q.id))
         /\ IF MutationError(reply) # NoErr
            THEN Return([ZeroRv EXCEPT !.q = Top.q, !.err = MutationError(reply)])
            ELSE Goto("poll", Top.q)
    /\ UNCHANGED <<nextId, pstate, dstate, cstate>>

\* The poll after the mutation (pc poll) or the one of a loop iteration (pc loop).
CancelPoll ==
    /\ Len(stack) > 0 /\ Top.fn = "Cancel" /\ Top.pc \in {"poll", "loop"}
    /\ Len(log) < MaxLog
    /\ \E reply \in QueryReplies :
         LET r == GetCurrentBulkQuery(reply) IN
         /\ log' = Append(log, PollEvent(reply))
         /\ IF r.err # NoErr
            THEN Return([ZeroRv EXCEPT !.q = r.q, !.err = r.err])
            ELSE IF CancelLoopCond(r.q)
                 THEN Goto("loop", r.q)
                 ELSE Return([ZeroRv EXCEPT !.q = r.q])
    /\ UNCHANGED <<remote, nextId, pstate, dstate, cstate>>

(***************************************************************************)
(* PostBulkQuery                                                           *)
(***************************************************************************)
\* The replies to bulkOperationRunQuery: a transport failure, user errors (an
\* invalid query, or a job already in flight), the job created, or a reply
\* with neither user errors nor an operation.
RunReplies ==
    IF ret.ctx = "cancelled"
    THEN { [ok |-> FALSE, userErrors |-> <<>>, id |-> NilID] }
    ELSE { [ok |-> FALSE, userErrors |-> <<>>, id |-> NilID],
           [ok |-> TRUE, userErrors |-> <<"invalid">>, id |-> NilID],
           [ok |-> TRUE, userErrors |-> <<>>, id |-> NilID] }
         \cup IF remote.status \notin InFlight /\ nextId <= MaxJobs
              THEN { [ok |-> TRUE, userErrors |-> <<>>, id |-> JobID(nextId)] }
              ELSE {}

\* PostBulkQuery with the user-errors test left out
PostBulkQueryIgnoreUserErrors(reply) ==
    IF ~reply.ok
    THEN [ZeroRv EXCEPT !.err = "transport"]
    ELSE [ZeroRv EXCEPT !.id = reply.id]

PostBulkQuery(reply) ==
    IF ~reply.ok
    THEN [ZeroRv EXCEPT !.err = "transport"]
    ELSE IF Len(reply.userErrors) > 0
         THEN [ZeroRv EXCEPT !.err = "userErrors"]
         ELSE [ZeroRv EXCEPT !.id = reply.id]

PostStep ==
    /\ Running("Post", "start")
    /\ Len(log) < MaxLog
    /\ \E reply \in RunReplies :
         /\ IF reply.id # NilID
            THEN remote' = NewJob(nextId) /\ nextId' = nextId + 1
            ELSE UNCHANGED <<remote, nextId>>
         /\ log' = Append(log, Event("run", MutationError(reply), reply.id))
         /\ Return(PostBulkQuery(reply))
    /\ UNCHANGED <<pstate, dstate, cstate>>

(***************************************************************************)
(* BulkQuery                                                               *)
(***************************************************************************)
\* BulkQueryStart that submits without waiting for the job in flight
BulkQueryStartNoWait ==
    /\ Running("BulkQuery", "start")
    /\ CallSub("Post", NilID, "afterPost", Top.q)
    /\ UNCHANGED <<remote, nextId, log, pstate, dstate, cstate>>

BulkQueryStart ==
    /\ Running("BulkQuery", "start")
    /\ CallSub("Wait", NilID, "afterWait", Top.q)
    /\ UNCHANGED <<remote, nextId, log, pstate, dstate, cstate>>

BulkQueryAfterWait ==
    /\ Running("BulkQuery", "afterWait")
    /\ IF rv.err # NoErr
       THEN Return([ZeroRv EXCEPT !.err = rv.err])
       ELSE CallSub("Post", NilID, "afterPost", Top.q)
    /\ UNCHANGED <<remote, nextId, log, pstate, dstate, cstate>>

BulkQueryAfterPost ==
    /\ Running("BulkQuery", "afterPost")
    /\ IF rv.err # NoErr
       THEN Return([ZeroRv EXCEPT !.err = rv.err])
       ELSE IF rv.id = NilID
            THEN Return([ZeroRv EXCEPT !.err = "nilID"])
            ELSE /\ stack' = Append([stack EXCEPT ![Len(stack)].pc = "afterShould",
                                                  ![Len(stack)].id = rv.id],
                                    Frame("Should", rv.id))
                 /\ UNCHANGED <<rv, ret>>
    /\ UNCHANGED <<remote, nextId, log, pstate, dstate, cstate>>

\* BulkQueryAfterShould with the test of the empty URL left out
BulkQueryAfterShouldAnyURL ==
    /\ Running("BulkQuery", "afterShould")
    /\ IF rv.err # NoErr
       THEN Return([ZeroRv EXCEPT !.err = rv.err, !.id = Top.id])
       ELSE /\ stack' = [stack EXCEPT ![Len(stack)].pc = "download",
                                      ![Len(stack)].url = rv.url]
            /\ UNCHANGED <<rv, ret>>
    /\ UNCHANGED <<remote, nextId, log, pstate, dstate, cstate>>

BulkQueryAfterShould ==
    /\ Running("BulkQuery", "afterShould")
    /\ IF rv.err # NoErr
       THEN Return([ZeroRv EXCEPT !.err = rv.err, !.id = Top.id])
       ELSE IF rv.url = ""
            THEN Return([ZeroRv EXCEPT !.err = "emptyURL", !.id = Top.id])
            ELSE /\ stack' = [stack EXCEPT ![Len(stack)].pc = "download",
                                           ![Len(stack)].url = rv.url]
                 /\ UNCHANGED <<rv, ret>>
    /\ UNCHANGED <<remote, nextId, log, pstate, dstate, cstate>>

\* utils.DownloadFile: the transfer succeeds or fails.
BulkQueryDownload ==
    /\ Running("BulkQuery", "download")
    /\ Len(log) < MaxLog
    /\ \E ok \in BOOLEAN :
         /\ log' = Append(log, Event("download", IF ok THEN NoErr ELSE "download", Top.url))
         /\ IF ok
            THEN Goto("parse", Top.q)
            ELSE Return([ZeroRv EXCEPT !.err = "download", !.id = Top.id, !.url = Top.url])
    /\ UNCHANGED <<remote, nextId, pstate, dstate, cstate>>

\* parseBulkQueryResult on the downloaded file succeeds or fails (SpecParse
\* follows it line by line).
BulkQueryParse ==
    /\ Running("BulkQuery", "parse")
    /\ Len(log) < MaxLog
    /\ \E ok \in BOOLEAN :
         /\ log' = Append(log, Event("parse", IF ok THEN NoErr ELSE "parse", Top.url))
         /\ Return([ZeroRv EXCEPT !.err = IF ok THEN NoErr ELSE "parse",
                                  !.id = Top.id, !.url = Top.url])
    /\ UNCHANGED <<remote, nextId, pstate, dstate, cstate>>

(***************************************************************************)
(* BulkQueryRunOnly                                                        *)
(***************************************************************************)
BulkQueryRunOnlyStart ==
    /\ Running("RunOnly", "start")
    /\ CallSub("Wait", NilID, "afterWait", Top.q)
    /\ UNCHANGED <<remote, nextId, log, pstate, dstate, cstate>>

BulkQueryRunOnlyAfterWait ==
    /\ Running("RunOnly", "afterWait")
    /\ IF rv.err # NoErr
       THEN Return([ZeroRv EXCEPT !.err = rv.err, !.id = ""])
       ELSE CallSub("Post", NilID, "afterPost", Top.q)
    /\ UNCHANGED <<remote, nextId, log, pstate, dstate, cstate>>

BulkQueryRunOnlyAfterPost ==
    /\ Running("RunOnly", "afterPost")
    /\ IF rv.err # NoErr
       THEN Return([ZeroRv EXCEPT !.err = rv.err, !.id = ""])
       ELSE IF rv.id = NilID
            THEN Return([ZeroRv EXCEPT !.err = "nilID", !.id = ""])
            ELSE Return([ZeroRv EXCEPT !.id = rv.id])
    /\ UNCHANGED <<remote, nextId, log, pstate, dstate, cstate>>

(***************************************************************************)
(* The controller's specification                                          *)
(***************************************************************************)
PIdle == [pc |-> "idle"]

DIdle == [pc |-> "idle"]

\* part_005 lines 16-20: the package-level variables as initialised, no client
\* built
CStart == [apiPathPrefix |-> "admin/api", built |-> <<>>]

Init ==
    /\ remote = ZeroOp
    /\ nextId = 1
    /\ stack = <<>>
    /\ rv = ZeroRv
    /\ ret = [op |-> "", arg |-> NilID, ctx |-> "live", done |-> FALSE, val |-> ZeroRv]
    /\ log = <<>>
    /\ pstate = PIdle
    /\ dstate = DIdle
    /\ cstate = CStart

Next ==
    \/ CtxCancel
    \/ RemoteStart
    \/ RemoteComplete
    \/ RemoteFail
    \/ RemoteCanceled
    \/ OtherSubmit
    \/ Call
    \/ GetCurrentStep
    \/ GetBulkQueryResult
    \/ WaitForCurrentBulkQuery
    \/ ShouldStart
    \/ ShouldAfterWait
    \/ CancelStart
    \/ CancelMutate
    \/ CancelPoll
    \/ PostStep
    \/ BulkQueryStart
    \/ BulkQueryAfterWait
    \/ BulkQueryAfterPost
    \/ BulkQueryAfterShould
    \/ BulkQueryDownload
    \/ BulkQueryParse
    \/ BulkQueryRunOnlyStart
    \/ BulkQueryRunOnlyAfterWait
    \/ BulkQueryRunOnlyAfterPost

Spec == Init /\ [][Next]_vars

(***************************************************************************)
(* Properties of the controller (checked under Spec)                       *)
(***************************************************************************)
Last(sq) == sq[Len(sq)]

WaitReturned == ret.op = "Wait" /\ ret.done

\* ShouldGetBulkQueryResultURL has just returned, to the caller or to BulkQuery;
\* rv holds what it returned.
ShouldReturned == (ret.op = "Should" /\ ret.done) \/ Running("BulkQuery", "afterShould")

\* the identifier ShouldGetBulkQueryResultURL was given
ExpectedID == IF ret.op = "Should" THEN ret.arg ELSE Top.id

\* PostBulkQuery has just returned, to the caller or to a composite operation.
PostReturned ==
    \/ ret.op = "Post" /\ ret.done
    \/ Running("BulkQuery", "afterPost")
    \/ Running("RunOnly", "afterPost")

\* C1 (as stated): whenever WaitForCurrentBulkQuery returns without error, the
\* snapshot it returns has status COMPLETED, FAILED or CANCELED.
C1_WaitReturnsOnlyTerminal ==
    (WaitReturned /\ rv.err = NoErr) => rv.q.status \in Terminal

\* C1 (amended): whenever WaitForCurrentBulkQuery returns without error, the
\* snapshot it returns is the one polled last and its status is none of CREATED,
\* RUNNING, CANCELING: it is COMPLETED, FAILED or CANCELED, or it is the zero
\* snapshot (empty status) polled when the service has no bulk operation.
C1_WaitReturnsNotInFlight ==
    (WaitReturned /\ rv.err = NoErr) =>
        /\ Len(log) > 0
        /\ Last(log) = Event("poll", rv.q.status, rv.q.id)
        /\ rv.q.status \notin InFlight
        /\ rv.q.status \in Terminal \/ rv.q = ZeroOp

\* C1 witness: the wait has polled a job in flight, polled again and returned
\* the COMPLETED snapshot.
C1_Witness ==
    /\ WaitReturned /\ rv.err = NoErr
    /\ rv.q.status = "COMPLETED"
    /\ Len(log) > 2 /\ log[1].st = "CREATED" /\ log[2].st = "RUNNING"

\* C2: in BulkQuery and BulkQueryRunOnly every bulkOperationRunQuery mutation is
\* sent right after a poll of the wait loop that succeeded and showed no job in
\* flight: the status polled last before the submission is COMPLETED, FAILED or
\* CANCELED, or there is no job at all; it is never CREATED, RUNNING, CANCELING.
C2_SubmitAfterTerminal ==
    ret.op \in {"BulkQuery", "RunOnly"} =>
        \A i \in 1..Len(log) :
            log[i].ev = "run" =>
                /\ i > 1
                /\ log[i-1].ev = "poll"
                /\ log[i-1].st \notin InFlight
                /\ log[i-1].st \in Terminal \/ (log[i-1].st = "" /\ log[i-1].id = NilID)

\* C2 witness: BulkQuery found the prior job RUNNING, waited, saw it COMPLETED
\* and then had its own job created.
C2_Witness ==
    /\ ret.op = "BulkQuery"
    /\ Len(log) >= 3
    /\ log[1].st = "RUNNING" /\ log[2].st = "COMPLETED"
    /\ log[3].ev = "run" /\ log[3].st = NoErr /\ log[3].id # NilID

\* C3 (as stated): when ShouldGetBulkQueryResultURL is given a non-nil identifier
\* and returns without error, the job it waited on to completion, whose URL it
\* returns, has that identifier.
C3_ResultIsOfExpectedJob ==
    (ShouldReturned /\ ExpectedID # NilID /\ rv.err = NoErr) => rv.q.id = ExpectedID

\* C4: ShouldGetBulkQueryResultURL returns without error only if the snapshot the
\* wait ended with is COMPLETED with an empty error code; with an error it
\* returns no URL.
C4_OnlyCompletedWithoutErrorCode ==
    ShouldReturned =>
        /\ rv.err = NoErr => (rv.q.status = "COMPLETED" /\ rv.q.errorCode = "")
        /\ rv.err # NoErr => rv.url = ""
        /\ (rv.q.status \in {"FAILED", "CANCELED"} \/ rv.q.errorCode # "") => rv.err # NoErr

\* C4 witness: a COMPLETED job with an error code has been turned into an error.
C4_Witness ==
    /\ ShouldReturned
    /\ rv.q.status = "COMPLETED" /\ rv.q.errorCode # ""
    /\ rv.err = "bulkOperationError" /\ rv.url = ""

\* C5: when the wait of ShouldGetBulkQueryResultURL ends with a COMPLETED
\* snapshot with an empty error code, the call returns no error, and the URL it
\* returns is empty if the object count is "0" and the snapshot's URL otherwise.
C5_ZeroObjectsEmptyURL ==
    (/\ ShouldReturned
     /\ rv.err \notin {"transport", "idMismatch"}
     /\ rv.q.status = "COMPLETED" /\ rv.q.errorCode = "") =>
        /\ rv.err = NoErr
        /\ rv.q.objectCount = "0" => rv.url = ""
        /\ rv.q.objectCount # "0" => rv.url = rv.q.url

\* C5 witness: a COMPLETED job without objects but with a result file yields the
\* empty URL and no error.
C5_Witness ==
    /\ ShouldReturned
    /\ rv.q.status = "COMPLETED" /\ rv.q.errorCode = ""
    /\ rv.q.objectCount = "0" /\ rv.q.url # ""
    /\ rv.err = NoErr /\ rv.url = ""

\* C6: a CancelRunningBulkQuery whose poll shows no job or a terminal job is that
\* one poll and nothing else: it sends no mutation, leaves the remote job as it
\* is and returns without error, so repeating it changes nothing either.
C6_CancelIdempotent ==
    [][ (/\ Running("Cancel", "start")
         /\ remote.status \in Terminal \cup {""}
         /\ log' # log
         /\ Last(log').st # "error") =>
            /\ log' = <<Event("poll", remote.status, remote.id)>>
            /\ remote' = remote /\ nextId' = nextId
            /\ stack' = <<>>
            /\ ret'.done /\ ret'.val.err = NoErr ]_vars

\* C6 witness: a cancel on a COMPLETED job has returned after its single poll.
C6_Witness ==
    /\ ret.op = "Cancel" /\ ret.done /\ rv.err = NoErr
    /\ Len(log) = 1 /\ log[1].st = "COMPLETED"

\* C7: when the first poll of CancelRunningBulkQuery shows a CREATED or RUNNING
\* job, the next request is the one bulkOperationCancel mutation of the call, for
\* that job's identifier, everything after it is a poll, and the call returns
\* without error only after a poll that succeeded and showed a status that is
\* none of CREATED, RUNNING, CANCELING.
C7_CancelThenPoll ==
    (ret.op = "Cancel" /\ Len(log) > 0 /\ log[1].st \in {"CREATED", "RUNNING"}) =>
        /\ ret.done => Len(log) >= 2
        /\ Len(log) >= 2 => (log[2].ev = "cancel" /\ log[2].id = log[1].id)
        /\ \A i \in 3..Len(log) : log[i].ev = "poll"
        /\ (ret.done /\ rv.err = NoErr) =>
              /\ Len(log) >= 3
              /\ log[2].st = NoErr
              /\ Last(log).st \notin InFlight \cup {"error"}

\* C7 witness: a RUNNING job was cancelled, polled while CANCELING and polled
\* again CANCELED, and the call returned without error.
C7_Witness ==
    /\ ret.op = "Cancel" /\ ret.done /\ rv.err = NoErr
    /\ Len(log) = 4
    /\ log[1].st = "RUNNING" /\ log[2].ev = "cancel"
    /\ log[3].st = "CANCELING" /\ log[4].st = "CANCELED"

\* C8: PostBulkQuery returns an error and no identifier when the reply carries
\* user errors, and the reply's operation identifier when it carries none; and
\* after user errors BulkQuery sends nothing more (no poll, no download, no
\* parse) and returns that error.
C8_UserErrorsStopBulkQuery ==
    /\ PostReturned =>
          /\ Len(log) > 0 /\ Last(log).ev = "run"
          /\ Last(log).st = "userErrors" => (rv.err = "userErrors" /\ rv.id = NilID)
          /\ Last(log).st = NoErr => (rv.err = NoErr /\ rv.id = Last(log).id)
    /\ ret.op = "BulkQuery" =>
          \A i \in 1..Len(log) :
              (log[i].ev = "run" /\ log[i].st = "userErrors") =>
                  /\ i = Len(log)
                  /\ Running("BulkQuery", "afterPost") \/ stack = <<>>
                  /\ stack = <<>> => (ret.done /\ ret.val.err = "userErrors")

\* C8 witness: BulkQuery has returned the user errors of its submission.
C8_Witness ==
    /\ ret.op = "BulkQuery" /\ ret.done /\ ret.val.err = "userErrors"
    /\ Len(log) = 2 /\ log[2].ev = "run"

(***************************************************************************)
(* Global identifiers and the type resolver                                *)
(*                                                                         *)
(* An identifier is the sequence of its "/"-separated segments:            *)
(* "gid://shopify/Metafield/1" is <<"gid:", "", "shopify", "Metafield",    *)
(* "1">>.  A JSON field that is missing is Absent.                         *)
(***************************************************************************)
Absent == <<>>

GID(tag, num) == <<"gid:", "", "shopify", tag, num>>

\* the segments of the model that match \w+ and \d+
WordTokens == {"LineItem", "FulfillmentOrderLineItem", "Metafield", "Order", "Product",
               "ProductVariant", "Collection", "ProductImage", "Customer", "shopify",
               "x", "1", "2"}

DigitTokens == {"1", "2"}

\* gidRegex for the pattern ^gid://shopify/(\w+) , without the numeric segment
gidRegexNoDigits(gid) ==
    IF /\ Len(gid) >= 4
       /\ gid[1] = "gid:" /\ gid[2] = "" /\ gid[3] = "shopify"
       /\ gid[4] \in WordTokens
    THEN <<gid, gid[4]>>
    ELSE <<>>

\* gidRegex.FindStringSubmatch(gid) for ^gid://shopify/(\w+)/\d+$ : the whole
\* match and the group, or nothing.
gidRegex(gid) ==
    IF /\ Len(gid) = 5
       /\ gid[1] = "gid:" /\ gid[2] = "" /\ gid[3] = "shopify"
       /\ gid[4] \in WordTokens
       /\ gid[5] \in DigitTokens
    THEN <<gid, gid[4]>>
    ELSE <<>>

Resolved(type, resource) == [type |-> type, field |-> resource \o "s", err |-> NoErr]

\* concludeObjectType with a default branch that takes the tag as the type
concludeObjectTypeCatchAll(gid) ==
    LET submatches == gidRegex(gid) IN
    IF Len(submatches) # 2
    THEN [type |-> "nil", field |-> "", err |-> "malformed gid"]
    ELSE Resolved(submatches[2], submatches[2])

concludeObjectType(gid) ==
    LET submatches == gidRegex(gid) IN
    IF Len(submatches) # 2
    THEN [type |-> "nil", field |-> "", err |-> "malformed gid"]
    ELSE LET resource == submatches[2] IN
         CASE resource = "LineItem" -> Resolved("LineItem", resource)
           [] resource = "FulfillmentOrderLineItem" -> Resolved("FulfillmentOrderLineItem", resource)
           [] resource = "Metafield" -> Resolved("Metafield", resource)
           [] resource = "Order" -> Resolved("Order", resource)
           [] resource = "Product" -> Resolved("ProductBulkResult", resource)
           [] resource = "ProductVariant" -> Resolved("ProductVariant", resource)
           [] resource = "Collection" -> Resolved("Collection", resource)
           [] resource = "ProductImage" -> Resolved("ProductImage", resource)
           [] OTHER -> [type |-> "nil", field |-> "", err |-> "not implemented type"]

(***************************************************************************)
(* parseBulkQueryResult                                                    *)
(***************************************************************************)
MaxLines == 3
MaxOrderLines == 5

\* the slice field of the Order type that holds its line items
OrderChildFields == {"LineItems"}

\* the slice fields of the parent types that hold children
ChildFields(itemType) ==
    IF itemType = "ProductBulkResult"
    THEN {"Metafields", "ProductVariants", "Collections", "ProductImages"}
    ELSE IF itemType = "Order" THEN OrderChildFields ELSE {}

Line(id, parentId) == [id |-> id, parentId |-> parentId]

ParentIDs == {GID("Product", "1"), GID("Product", "2")}

ParentLines == { Line(id, Absent) : id \in ParentIDs \cup {Absent} }

ChildLines ==
    { Line(id, p) : id \in {GID("Metafield", "1"), GID("Metafield", "2")}, p \in ParentIDs }
    \cup { Line(GID(tag, "1"), GID("Product", "1")) :
             tag \in {"LineItem", "FulfillmentOrderLineItem", "Order", "Product",
                      "ProductVariant", "Collection", "ProductImage", "Customer"} }
    \cup { Line(id, GID("Product", "1")) :
             id \in {Absent, <<"gid:", "", "shopify", "Metafield">>,
                     <<"gid:", "", "x", "Metafield", "1">>, GID("Metafield", "x")} }

\* the lines of a result file of orders: the parents carry identifiers of the
\* namespace x, the line items of either namespace
OrderParentIDs == {<<"gid:", "", "x", "Order", "1">>, <<"gid:", "", "x", "Order", "2">>}

OrderParentLines == { Line(id, Absent) : id \in OrderParentIDs \cup {Absent} }

OrderChildLines ==
    { Line(GID("LineItem", n), <<"gid:", "", "x", "Order", "1">>) : n \in {"1", "2"} }
    \cup { Line(GID("LineItem", "1"), <<"gid:", "", "x", "Order", "2">>),
           Line(<<"gid:", "", "x", "LineItem", "1">>, <<"gid:", "", "x", "Order", "1">>) }

\* the lines a file of the given item type is made of, and how many are read
ParentLinesOf(itemType) == IF itemType = "Order" THEN OrderParentLines ELSE ParentLines

ChildLinesOf(itemType) == IF itemType = "Order" THEN OrderChildLines ELSE ChildLines

LineBound(itemType) == IF itemType = "Order" THEN MaxOrderLines ELSE MaxLines

\* the unterminated data ReadBytes can return together with io.EOF
NoLine == [id |-> Absent, parentId |-> Absent, none |-> TRUE]

Tails == {NoLine, Line(GID("Product", "2"), Absent),
          Line(GID("Metafield", "2"), GID("Product", "1"))}

TailsOf(itemType) ==
    IF itemType = "Order"
    THEN {NoLine, Line(GID("LineItem", "2"), <<"gid:", "", "x", "Order", "1">>)}
    ELSE Tails

\* json.Unmarshal of a parent line into a new item of the slice's type
NewItem(itemType, line) ==
    [type |-> itemType, ID |-> line.id, fields |-> [f \in ChildFields(itemType) |-> <<>>]]

\* json.Unmarshal of a child line into a new value of the resolved type
NewChild(type, line) == [type |-> type, ID |-> line.id]

PStart(itemType) ==
    [pc |-> "read", itemType |-> itemType, out |-> <<>>,
     childrenLookup |-> [k \in {} |-> <<>>], err |-> NoErr,
     consumed |-> <<>>, tail |-> NoLine, end |-> ""]

\* a variant of AddChild that puts the newest child first
AddChildPrepend(lookup, parentId, field, child) ==
    LET children == IF parentId \in DOMAIN lookup THEN lookup[parentId] ELSE [k \in {} |-> <<>>]
        childrenSlice == IF field \in DOMAIN children THEN children[field] ELSE <<>>
    IN (parentId :> ((field :> (<<child>> \o childrenSlice)) @@ children)) @@ lookup

\* a variant of AddChild that forgets the children the field already has
AddChildOverwrite(lookup, parentId, field, child) ==
    LET children == IF parentId \in DOMAIN lookup THEN lookup[parentId] ELSE [k \in {} |-> <<>>]
    IN (parentId :> ((field :> <<child>>) @@ children)) @@ lookup

\* lines 545-562: childrenLookup with the child appended to its parent's slice
\* of the resolved field
AddChild(lookup, parentId, field, child) ==
    LET children == IF parentId \in DOMAIN lookup THEN lookup[parentId] ELSE [k \in {} |-> <<>>]
        childrenSlice == IF field \in DOMAIN children THEN children[field] ELSE <<>>
    IN (parentId :> ((field :> Append(childrenSlice, child)) @@ children)) @@ lookup

\* lines 528-565: a line with __parentId
ParseChildLine ==
    /\ pstate.pc = "read"
    /\ Len(pstate.consumed) < LineBound(pstate.itemType)
    /\ \E line \in ChildLinesOf(pstate.itemType) :
         LET read == [pstate EXCEPT !.consumed = Append(@, line)]
             c == concludeObjectType(line.id)
         IN pstate' =
              IF line.id = Absent
              THEN [read EXCEPT !.pc = "done", !.err = "Connection type must query id field"]
              ELSE IF c.err # NoErr
                   THEN [read EXCEPT !.pc = "done", !.err = c.err]
                   ELSE [read EXCEPT !.childrenLookup =
                            AddChild(@, line.parentId, c.field, NewChild(c.type, line))]
    /\ UNCHANGED <<ctlVars, dstate, cstate>>

\* lines 567-578: a line without __parentId
ParseParentLine ==
    /\ pstate.pc = "read"
    /\ Len(pstate.consumed) < LineBound(pstate.itemType)
    /\ \E line \in ParentLinesOf(pstate.itemType) :
         pstate' = [pstate EXCEPT !.consumed = Append(@, line),
                                  !.out = Append(@, NewItem(pstate.itemType, line))]
    /\ UNCHANGED <<ctlVars, dstate, cstate>>

\* lines 523-526: ReadBytes returns an error, io.EOF (with the unterminated data
\* that ends the file, if any) or another one; the loop is left without that data
\* being looked at.
ParseEndOfStream ==
    /\ pstate.pc = "read"
    /\ \E e \in {"EOF", "read error"}, tail \in TailsOf(pstate.itemType) :
         pstate' = [pstate EXCEPT !.pc = "reconcile", !.err = e, !.end = e, !.tail = tail]
    /\ UNCHANGED <<ctlVars, dstate, cstate>>

\* lines 581-606: the ways the loop over the parents can end, as [out, err].  The
\* fields of one parent are assigned in the map's iteration order, which is not
\* fixed: before a field that the parent type lacks stops the loop, any of the
\* other fields may have been assigned.
RECURSIVE ReconcileFrom(_, _, _)
ReconcileFrom(i, out, lookup) ==
    IF i > Len(out)
    THEN {[out |-> out, err |-> NoErr]}
    ELSE LET parent == out[i] IN
         IF parent.ID = Absent
         THEN {[out |-> out, err |-> "No ID field on the first level"]}
         ELSE IF parent.ID \in DOMAIN lookup
              THEN LET children == lookup[parent.ID]
                       valid == DOMAIN children \cap ChildFields(parent.type)
                       Assign(S) == [out EXCEPT ![i].fields =
                                        [f \in DOMAIN @ |-> IF f \in S THEN children[f] ELSE @[f]]]
                   IN IF DOMAIN children \subseteq valid
                      THEN ReconcileFrom(i + 1, Assign(valid), lookup)
                      ELSE { [out |-> Assign(S), err |-> "Field not defined on the parent type"] :
                               S \in SUBSET valid }
              ELSE ReconcileFrom(i + 1, out, lookup)

\* a variant of ParseResult that takes every end of the stream for a clean one
ParseResultAnyEndClean(recErr, readErr) == recErr

\* lines 581-614: the error returned, from the error of the loop over the
\* parents and the error that ended the reading
ParseResult(recErr, readErr) ==
    IF recErr # NoErr THEN recErr
    ELSE IF readErr # NoErr /\ readErr # "EOF" THEN readErr
    ELSE NoErr

\* lines 581-614
ParseReconcile ==
    /\ pstate.pc = "reconcile"
    /\ \E r \in IF DOMAIN pstate.childrenLookup # {}
                THEN ReconcileFrom(1, pstate.out, pstate.childrenLookup)
                ELSE {[out |-> pstate.out, err |-> NoErr]} :
         pstate' = [pstate EXCEPT
                      !.pc = "done",
                      !.out = r.out,
                      !.err = ParseResult(r.err, pstate.err)]
    /\ UNCHANGED <<ctlVars, dstate, cstate>>

InitParse ==
    /\ remote = ZeroOp
    /\ nextId = 1
    /\ stack = <<>>
    /\ rv = ZeroRv
    /\ ret = [op |-> "", arg |-> NilID, ctx |-> "live", done |-> FALSE, val |-> ZeroRv]
    /\ log = <<>>
    /\ pstate = PStart("ProductBulkResult")
    /\ dstate = DIdle
    /\ cstate = CStart

NextParse ==
    \/ ParseChildLine
    \/ ParseParentLine
    \/ ParseEndOfStream
    \/ ParseReconcile

SpecParse == InitParse /\ [][NextParse]_vars

\* the parse of a result file of orders into a slice of Order
InitOrder ==
    /\ remote = ZeroOp
    /\ nextId = 1
    /\ stack = <<>>
    /\ rv = ZeroRv
    /\ ret = [op |-> "", arg |-> NilID, ctx |-> "live", done |-> FALSE, val |-> ZeroRv]
    /\ log = <<>>
    /\ pstate = PStart("Order")
    /\ dstate = DIdle
    /\ cstate = CStart

SpecOrder == InitOrder /\ [][NextParse]_vars

(***************************************************************************)
(* Properties of the parser (checked under SpecParse)                      *)
(***************************************************************************)
IsChildLine(line) == line.parentId # Absent

OutIDs == { pstate.out[j].ID : j \in 1..Len(pstate.out) }

\* C9 (as stated): a parse that has read a child line whose __parentId is the
\* identifier of no parent record in the output does not succeed.
C9_OrphansFail ==
    (/\ pstate.pc = "done"
     /\ \E i \in 1..Len(pstate.consumed) :
          IsChildLine(pstate.consumed[i]) /\ pstate.consumed[i].parentId \notin OutIDs)
    => pstate.err # NoErr

\* the claim's table: tag |-> <<schema, field name>>
KnownTags ==
    [LineItem |-> <<"LineItem", "LineItems">>,
     FulfillmentOrderLineItem |-> <<"FulfillmentOrderLineItem", "FulfillmentOrderLineItems">>,
     Metafield |-> <<"Metafield", "Metafields">>,
     Order |-> <<"Order", "Orders">>,
     Product |-> <<"ProductBulkResult", "Products">>,
     ProductVariant |-> <<"ProductVariant", "ProductVariants">>,
     Collection |-> <<"Collection", "Collections">>,
     ProductImage |-> <<"ProductImage", "ProductImages">>]

WellFormed(gid) ==
    Len(gid) = 5 /\ gid[1] = "gid:" /\ gid[2] = "" /\ gid[3] = "shopify" /\ gid[5] \in {"1", "2"}

\* the children accumulated for a parent under a field
Accumulated(parentId, field) ==
    IF parentId \in DOMAIN pstate.childrenLookup
       /\ field \in DOMAIN pstate.childrenLookup[parentId]
    THEN { pstate.childrenLookup[parentId][field][k] :
             k \in 1..Len(pstate.childrenLookup[parentId][field]) }
    ELSE {}

AllAccumulated ==
    UNION { Accumulated(p, f) : p \in ParentIDs,
                                f \in { KnownTags[t][2] : t \in DOMAIN KnownTags }
                                      \cup { t \o "s" : t \in WordTokens } }

\* C10: every child line read whose identifier is well formed is resolved by its
\* tag alone: for a known tag the child is decoded with the tag's schema and
\* accumulated under the field tag+"s"; for any other tag the parse ends there
\* with the resolver's error, the line is not accumulated and the parse fails.
C10_FixedMappingUnknownFails ==
    \A i \in 1..Len(pstate.consumed) :
        LET line == pstate.consumed[i] IN
        (IsChildLine(line) /\ WellFormed(line.id)) =>
            IF line.id[4] \in DOMAIN KnownTags
            THEN [type |-> KnownTags[line.id[4]][1], ID |-> line.id]
                     \in Accumulated(line.parentId, KnownTags[line.id[4]][2])
            ELSE /\ i = Len(pstate.consumed)
                 /\ pstate.pc = "done"
                 /\ pstate.err = "not implemented type"
                 /\ \A c \in AllAccumulated : c.ID # line.id

\* C10 witness: a parse that had read a parent and a child of a known tag has
\* ended on a child line with an unknown tag.
C10_Witness ==
    /\ pstate.pc = "done" /\ pstate.err = "not implemented type"
    /\ Len(pstate.consumed) = 3
    /\ pstate.consumed[1] = Line(GID("Product", "1"), Absent)
    /\ pstate.consumed[2] = Line(GID("ProductImage", "1"), GID("Product", "1"))
    /\ pstate.consumed[3] = Line(GID("Customer", "1"), GID("Product", "1"))

\* the errors of a parse that failed on the content of the stream
ReconciliationErrs ==
    {"Connection type must query id field", "malformed gid", "not implemented type",
     "No ID field on the first level", "Field not defined on the parent type"}

\* C11 (as stated): when the parse has returned a reconciliation failure, the
\* destination is as the caller passed it (empty): it holds no parent appended
\* and no child attached by that parse.
C11_FailedParseLeavesNothing ==
    (pstate.pc = "done" /\ pstate.err \in ReconciliationErrs) => pstate.out = <<>>

\* the identifiers of the parent lines read, in stream order
StreamParentIDs ==
    LET sel == SelectSeq(pstate.consumed, LAMBDA l : ~IsChildLine(l))
    IN [k \in 1..Len(sel) |-> sel[k].id]

\* the children read for a parent under a field, in stream order
StreamChildren(parentId, field) ==
    LET sel == SelectSeq(pstate.consumed,
                         LAMBDA l : /\ IsChildLine(l)
                                    /\ l.parentId = parentId
                                    /\ WellFormed(l.id)
                                    /\ l.id[4] \in DOMAIN KnownTags
                                    /\ KnownTags[l.id[4]][2] = field)
    IN [k \in 1..Len(sel) |-> [type |-> KnownTags[sel[k].id[4]][1], ID |-> sel[k].id]]

\* C12: after a successful parse the output holds the parents in the order their
\* lines were read, and every field of every parent holds that parent's children
\* of the field in the order their lines were read.
C12_StreamOrderKept ==
    (pstate.pc = "done" /\ pstate.err = NoErr) =>
        /\ [j \in 1..Len(pstate.out) |-> pstate.out[j].ID] = StreamParentIDs
        /\ \A j \in 1..Len(pstate.out) :
             \A f \in DOMAIN pstate.out[j].fields :
                 pstate.out[j].fields[f] = StreamChildren(pstate.out[j].ID, f)

\* C12 witness: a successful parse of a parent followed by two of its children
\* under the same field, the child numbered 2 first.
C12_Witness ==
    /\ pstate.pc = "done" /\ pstate.err = NoErr
    /\ pstate.consumed = <<Line(GID("Product", "1"), Absent),
                           Line(GID("Metafield", "2"), GID("Product", "1")),
                           Line(GID("Metafield", "1"), GID("Product", "1"))>>
    /\ pstate.out[1].fields["Metafields"] =
           <<[type |-> "Metafield", ID |-> GID("Metafield", "2")],
             [type |-> "Metafield", ID |-> GID("Metafield", "1")]>>

(***************************************************************************)
(* Properties of the parse of a file of orders (checked under SpecOrder)   *)
(***************************************************************************)
RoundTripParent == <<"gid:", "", "x", "Order", "1">>

\* the child lines read for the order gid://x/Order/1
RoundTripChildLines ==
    SelectSeq(pstate.consumed, LAMBDA l : IsChildLine(l) /\ l.parentId = RoundTripParent)

\* the stream read: the parent line of gid://x/Order/1 once, two child lines for
\* it, every parent line with an identifier, and the file read to its end
RoundTripStream ==
    /\ pstate.pc = "done" /\ pstate.err # "read error"
    /\ Len(SelectSeq(pstate.consumed,
                     LAMBDA l : ~IsChildLine(l) /\ l.id = RoundTripParent)) = 1
    /\ \A i \in 1..Len(pstate.consumed) :
         ~IsChildLine(pstate.consumed[i]) => pstate.consumed[i].id # Absent
    /\ Len(RoundTripChildLines) = 2

\* the result: one record for the order, its LineItems the two children in
\* stream order
RoundTripResult ==
    /\ pstate.err = NoErr
    /\ Cardinality({ j \in 1..Len(pstate.out) : pstate.out[j].ID = RoundTripParent }) = 1
    /\ \A j \in 1..Len(pstate.out) :
         pstate.out[j].ID = RoundTripParent =>
             pstate.out[j].fields["LineItems"] =
                 [k \in 1..2 |-> [type |-> "LineItem", ID |-> RoundTripChildLines[k].id]]

MaxCost == 10
MaxRate == 4

\* http.StatusOK
StatusOK == 200

Response(status, body, decodeErr, errors, ext, requested, available, rate, data) ==
    [status |-> status, body |-> body, decodeErr |-> decodeErr, errors |-> errors,
     ext |-> ext, requestedQueryCost |-> requested, currentlyAvailable |-> available,
     restoreRate |-> rate, data |-> data]

NoResponse == Response(0, "", FALSE, <<>>, "nil", 0, 0, 0, "nil")

\* what the decoder leaves in out.Errors, out.Extensions (nil, without cost,
\* with cost) and out.Data (nil, decodable into v, not decodable into v)
ErrorLists == {<<>>, <<"Throttled">>, <<"Internal error">>, <<"Internal error", "Throttled">>}

OKResponses ==
    { Response(StatusOK, "json", de, errs, ext, 0, 0, 0, data) :
        de \in BOOLEAN, errs \in ErrorLists, ext \in {"nil", "noCost"},
        data \in {"nil", "ok", "bad"} }
    \cup { Response(StatusOK, "json", de, errs, "cost", r, a, rt, data) :
             de \in BOOLEAN, errs \in ErrorLists, r \in 0..MaxCost, a \in 0..MaxCost,
             rt \in 0..MaxRate, data \in {"nil", "ok", "bad"} }

\* the responses of another status: only the status line and the raw body count
OtherResponses ==
    { Response(st, body, FALSE, <<>>, "nil", 0, 0, 0, "nil") :
        st \in {201, 204, 429, 500}, body \in {"", "raw body"} }

\* the error values do returns
DoErr(kind, status, body, errors) ==
    [kind |-> kind, status |-> status, body |-> body, errors |-> errors]

DoNil == DoErr("nil", 0, "", <<>>)

DStart ==
    [pc |-> "encode", resp |-> NoResponse, sent |-> 0, decoded |-> FALSE,
     sleeps |-> 0, slept |-> 0, err |-> DoNil]

\* lines 75-86: the query and its variables are encoded, which can fail
DoEncode ==
    /\ dstate.pc = "encode"
    /\ \/ dstate' = [dstate EXCEPT !.pc = "post"]
       \/ dstate' = [dstate EXCEPT !.pc = "done", !.err = DoErr("encode", 0, "", <<>>)]
    /\ UNCHANGED <<ctlVars, pstate, cstate>>

\* lines 87-90: the request is posted; the transport fails or hands a response
DoPost ==
    /\ dstate.pc = "post"
    /\ \/ dstate' = [dstate EXCEPT !.pc = "done", !.sent = @ + 1,
                                   !.err = DoErr("transport", 0, "", <<>>)]
       \/ \E resp \in OKResponses \cup OtherResponses :
            dstate' = [dstate EXCEPT !.pc = "status", !.sent = @ + 1, !.resp = resp]
    /\ UNCHANGED <<ctlVars, pstate, cstate>>

\* a variant of IsSuccess that accepts every status from 200 to 299
IsSuccessAny2xx(status) == status \in 200..299

\* line 92: the statuses whose body is decoded
IsSuccess(status) == status = StatusOK

\* lines 92-95: another status ends the call with the status and the raw body
DoCheckStatus ==
    /\ dstate.pc = "status"
    /\ dstate' = IF IsSuccess(dstate.resp.status)
                 THEN [dstate EXCEPT !.pc = "decode"]
                 ELSE [dstate EXCEPT !.pc = "done",
                          !.err = DoErr("status", dstate.resp.status, dstate.resp.body, <<>>)]
    /\ UNCHANGED <<ctlVars, pstate, cstate>>

\* lines 96-101: the body is decoded into out
DoDecode ==
    /\ dstate.pc = "decode"
    /\ dstate' = [dstate EXCEPT !.pc = "throttle", !.decoded = TRUE]
    /\ UNCHANGED <<ctlVars, pstate, cstate>>

\* a variant of BackOffDue that does not look at the first error's message
BackOffDueAnyMessage(resp) ==
    /\ Len(resp.errors) > 0 /\ resp.ext # "nil"
    /\ resp.ext = "cost"
    /\ resp.currentlyAvailable < resp.requestedQueryCost

\* lines 103-110: the conditions under which do sleeps
BackOffDue(resp) ==
    /\ Len(resp.errors) > 0 /\ resp.ext # "nil"
    /\ resp.errors[1] = "Throttled"
    /\ resp.ext = "cost"
    /\ resp.currentlyAvailable < resp.requestedQueryCost

\* a variant of Ceil that truncates
Trunc(num, den) == num \div den

\* line 111: math.Ceil(num / den), for a positive divisor
Ceil(num, den) == IF num % den = 0 THEN num \div den ELSE (num \div den) + 1

\* line 112: a division by a restoreRate of 0 gives +Inf, whose conversion to
\* time.Duration depends on the implementation: a negative, a zero or a positive
\* number of seconds
ImplDefinedSeconds == {-1, 0, 1}

\* lines 111-112: the seconds slept
SleepSeconds(resp) ==
    IF resp.restoreRate = 0
    THEN ImplDefinedSeconds
    ELSE {Ceil(resp.requestedQueryCost - resp.currentlyAvailable, resp.restoreRate)}

\* lines 103-116
DoThrottle ==
    /\ dstate.pc = "throttle"
    /\ IF BackOffDue(dstate.resp)
       THEN \E d \in SleepSeconds(dstate.resp) :
              dstate' = [dstate EXCEPT !.pc = "result", !.sleeps = @ + 1, !.slept = d]
       ELSE dstate' = [dstate EXCEPT !.pc = "result"]
    /\ UNCHANGED <<ctlVars, pstate, cstate>>

\* a variant of DoReturn that reports no error
DoReturnNil(resp) == DoNil

\* lines 118-133: the value returned after the back-off
DoReturn(resp) ==
    IF resp.decodeErr THEN DoErr("decode", 0, "", <<>>)
    ELSE IF resp.data = "bad" THEN DoErr("unmarshal", 0, "", <<>>)
    ELSE IF Len(resp.errors) > 0 THEN DoErr("errors", 0, "", resp.errors)
    ELSE DoNil

\* lines 118-133
DoResult ==
    /\ dstate.pc = "result"
    /\ dstate' = [dstate EXCEPT !.pc = "done", !.err = DoReturn(dstate.resp)]
    /\ UNCHANGED <<ctlVars, pstate, cstate>>

InitDo ==
    /\ remote = ZeroOp
    /\ nextId = 1
    /\ stack = <<>>
    /\ rv = ZeroRv
    /\ ret = [op |-> "", arg |-> NilID, ctx |-> "live", done |-> FALSE, val |-> ZeroRv]
    /\ log = <<>>
    /\ pstate = PIdle
    /\ dstate = DStart
    /\ cstate = CStart

NextDo ==
    \/ DoEncode
    \/ DoPost
    \/ DoCheckStatus
    \/ DoDecode
    \/ DoThrottle
    \/ DoResult

SpecDo == InitDo /\ [][NextDo]_vars

(***************************************************************************)
(* Properties of Client.do (checked under SpecDo)                          *)
(***************************************************************************)
\* the call is past lines 103-116
PastBackOff == dstate.decoded /\ dstate.pc \in {"result", "done"}

\* a decoded response with a first error "Throttled" and a cost envelope
ThrottledEnvelope(resp) ==
    /\ Len(resp.errors) > 0
    /\ resp.errors[1] = "Throttled"
    /\ resp.ext = "cost"

\* C14: for a throttled response whose currentlyAvailable is below its
\* requestedQueryCost and whose restoreRate is positive, do sleeps once, for the
\* least whole number of seconds d with d * restoreRate >= requestedQueryCost -
\* currentlyAvailable, the ceiling of the quotient; for 10, 4 and 2 it is 3.
C14_DelayIsCeiling ==
    LET resp == dstate.resp
        short == resp.requestedQueryCost - resp.currentlyAvailable
    IN (PastBackOff /\ ThrottledEnvelope(resp) /\ short > 0 /\ resp.restoreRate > 0) =>
           /\ dstate.sleeps = 1
           /\ dstate.slept * resp.restoreRate >= short
           /\ (dstate.slept - 1) * resp.restoreRate < short
           /\ (resp.requestedQueryCost = 10 /\ resp.currentlyAvailable = 4
               /\ resp.restoreRate = 2) => dstate.slept = 3

\* C14 witness: the call has returned after a throttled response with costs 10,
\* 4 and 2 and a sleep of 3 seconds.
C14_Witness ==
    /\ dstate.pc = "done"
    /\ ThrottledEnvelope(dstate.resp)
    /\ dstate.resp.requestedQueryCost = 10
    /\ dstate.resp.currentlyAvailable = 4
    /\ dstate.resp.restoreRate = 2
    /\ dstate.sleeps = 1 /\ dstate.slept = 3

\* a throttled response that decodes: the body is valid and its data, if any,
\* fits the caller's value
ThrottledResponse(resp) ==
    /\ IsSuccess(resp.status)
    /\ ThrottledEnvelope(resp)
    /\ ~resp.decodeErr /\ resp.data # "bad"

\* C15: on a throttled response the sleep, if one is due, has been done when the
\* call is about to return; the call then returns the errors of the response,
\* "Throttled" first; and the call posts its request once, whatever the response.
C15_SleepThenThrottledError ==
    /\ dstate.sent <= 1
    /\ dstate.resp # NoResponse => dstate.sent = 1
    /\ (PastBackOff /\ ThrottledResponse(dstate.resp)) =>
          /\ dstate.sleeps =
                IF dstate.resp.currentlyAvailable < dstate.resp.requestedQueryCost
                THEN 1 ELSE 0
          /\ dstate.pc = "result" => dstate.err = DoNil
          /\ dstate.pc = "done" =>
                /\ dstate.err.kind = "errors"
                /\ dstate.err.errors = dstate.resp.errors

\* C15 witness: the call has slept and returned the Throttled error of the
\* response, after one request.
C15_Witness ==
    /\ dstate.pc = "done"
    /\ ThrottledResponse(dstate.resp)
    /\ dstate.sleeps = 1 /\ dstate.slept = 2
    /\ dstate.err.kind = "errors" /\ dstate.err.errors[1] = "Throttled"
    /\ dstate.sent = 1

\* C16 (as stated): do sleeps exactly when the decoded response has a non-empty
\* error list with the first message "Throttled" and a cost envelope.
C16_SleepIffEnvelope ==
    PastBackOff => (dstate.sleeps = 1 <=> ThrottledEnvelope(dstate.resp))

\* C16 (amended): do sleeps exactly when the decoded response has a non-empty
\* error list with the first message "Throttled", a cost envelope, and a
\* currentlyAvailable below its requestedQueryCost; in every other case it does
\* not sleep at all.
C16_SleepIffEnvelopeAndShort ==
    /\ dstate.sleeps \in {0, 1}
    /\ ~PastBackOff => dstate.sleeps = 0
    /\ PastBackOff =>
         (dstate.sleeps = 1 <=>
            /\ ThrottledEnvelope(dstate.resp)
            /\ dstate.resp.currentlyAvailable < dstate.resp.requestedQueryCost)

\* C16 witness: a response with the Throttled error and a cost envelope whose
\* currentlyAvailable is not below its requestedQueryCost has been answered
\* without a sleep.
C16_Witness ==
    /\ dstate.pc = "done"
    /\ ThrottledEnvelope(dstate.resp)
    /\ dstate.resp.currentlyAvailable >= dstate.resp.requestedQueryCost
    /\ dstate.sleeps = 0

\* C18 (as stated): a response with a status from 200 to 299 is decoded, any
\* other response ends the call with the status error that carries the raw body.
C18_Every2xxDecoded ==
    (dstate.pc = "done" /\ dstate.resp # NoResponse) =>
        IF dstate.resp.status \in 200..299
        THEN dstate.decoded /\ dstate.err.kind # "status"
        ELSE ~dstate.decoded /\ dstate.err = DoErr("status", dstate.resp.status,
                                                   dstate.resp.body, <<>>)

\* C18 (amended): a response with status 200 is decoded, and any other response,
\* those of another 2xx status included, ends the call with the status error
\* that carries the status and the raw body, undecoded and without a sleep.
C18_Only200Decoded ==
    (dstate.pc = "done" /\ dstate.resp # NoResponse) =>
        IF dstate.resp.status = 200
        THEN dstate.decoded /\ dstate.err.kind # "status"
        ELSE /\ ~dstate.decoded /\ dstate.sleeps = 0
             /\ dstate.err = DoErr("status", dstate.resp.status, dstate.resp.body, <<>>)

\* C18 witness: a response with status 201 has ended the call with the status
\* error and its raw body.
C18_Witness ==
    /\ dstate.pc = "done"
    /\ dstate.resp.status = 201 /\ dstate.resp.body = "raw body"
    /\ ~dstate.decoded
    /\ dstate.err = DoErr("status", 201, "raw body", <<>>)

(***************************************************************************)
(* Cancellation of the ctx (checked under Spec)                            *)
(***************************************************************************)
\* C17: once the ctx is cancelled, the next poll of WaitForCurrentBulkQuery, the
\* first one or the one that ends a sleep-and-poll iteration, fails and the wait
\* returns an error to its caller instead of going round the loop again.
C17_CancelledWaitReturns ==
    [][ (/\ ret.ctx = "cancelled"
         /\ Len(stack) > 0 /\ Top.fn = "Wait"
         /\ log' # log)
        => /\ Len(stack') = Len(stack) - 1
           /\ rv'.err # NoErr
           /\ Last(log').ev = "poll" /\ Last(log').st = "error" ]_vars

\* C17 witness: a wait that had seen the job in flight has returned an error
\* after its ctx was cancelled, the job still in flight.
C17_Witness ==
    /\ ret.op = "Wait" /\ ret.done /\ ret.ctx = "cancelled"
    /\ ret.val.err # NoErr
    /\ Len(log) = 2
    /\ log[1].st \in InFlight /\ log[2].st = "error"
    /\ remote.status \in InFlight

(***************************************************************************)
(* Identifiers of the lines (checked under SpecParse)                      *)
(***************************************************************************)
\* C19 (as stated): a parse that has read a parent line without an identifier
\* does not succeed, whether or not child lines were read.
C19_ParentWithoutIDFails ==
    (/\ pstate.pc = "done"
     /\ \E i \in 1..Len(pstate.consumed) :
          ~IsChildLine(pstate.consumed[i]) /\ pstate.consumed[i].id = Absent)
    => pstate.err # NoErr

\* the claim's format of an identifier: scheme://namespace/<ResourceType>/<digits>
FormatOK(gid) ==
    /\ Len(gid) = 5
    /\ gid[1] = "gid:" /\ gid[2] = ""
    /\ gid[3] \in WordTokens /\ gid[4] \in WordTokens
    /\ gid[5] \in DigitTokens

\* the children attached to the parents of the output
Attached ==
    UNION { { pstate.out[j].fields[f][k] : k \in 1..Len(pstate.out[j].fields[f]) } :
              j \in 1..Len(pstate.out), f \in ChildFields(pstate.itemType) }

\* C20: a child line read without an identifier, or with one that is not of the
\* format scheme://namespace/<ResourceType>/<digits>, ends the parse there with
\* an error, and no child with that identifier is accumulated or attached.
C20_IllFormedChildFails ==
    \A i \in 1..Len(pstate.consumed) :
        LET line == pstate.consumed[i] IN
        (IsChildLine(line) /\ (line.id = Absent \/ ~FormatOK(line.id))) =>
            /\ i = Len(pstate.consumed)
            /\ pstate.pc = "done"
            /\ pstate.err = IF line.id = Absent
                            THEN "Connection type must query id field"
                            ELSE "malformed gid"
            /\ \A c \in AllAccumulated \cup Attached : c.ID # line.id

\* C20 witness: after a parent and one of its children, a child line whose
\* identifier lacks the numeric segment has ended the parse with an error.
C20_Witness ==
    /\ pstate.pc = "done" /\ pstate.err = "malformed gid"
    /\ pstate.consumed = <<Line(GID("Product", "1"), Absent),
                           Line(GID("Metafield", "1"), GID("Product", "1")),
                           Line(<<"gid:", "", "shopify", "Metafield">>, GID("Product", "1"))>>
    /\ Accumulated(GID("Product", "1"), "Metafields") =
           {[type |-> "Metafield", ID |-> GID("Metafield", "1")]}

(***************************************************************************)
(* Failures of requests (checked under Spec)                               *)
(***************************************************************************)
\* the errors that stand for a transport failure of a status poll: the
\* transport's own error, or the wait's error that wraps it
TransportErrs == {"transport", "queryError"}

\* C21 (as stated): when ShouldGetBulkQueryResultURL or BulkQuery has returned
\* right after a status poll that failed in the transport, the error returned
\* is the transport failure, not one of another category.
C21_PollFailureKeepsCategory ==
    (/\ ret.op \in {"Should", "BulkQuery"} /\ ret.done
     /\ log # <<>> /\ Last(log).ev = "poll" /\ Last(log).st = "error")
    => ret.val.err \in TransportErrs

\* a request that failed: a status query the transport failed, or a mutation
\* that the transport failed or that came back with user errors
FailedRequest(e) ==
    \/ e.ev = "poll" /\ e.st = "error"
    \/ e.ev \in {"cancel", "run"} /\ e.st # NoErr

\* C22: a failed status query or mutation is the last request of its call, the
\* call that has returned after it has returned an error, and one BulkQuery call
\* sends at most one bulkOperationRunQuery mutation.
C22_NoRetry ==
    /\ \A i \in 1..(Len(log) - 1) : ~FailedRequest(log[i])
    /\ (ret.done /\ log # <<>> /\ FailedRequest(Last(log))) => ret.val.err # NoErr
    /\ ret.op = "BulkQuery" => Cardinality({ i \in 1..Len(log) : log[i].ev = "run" }) <= 1

\* C22 witness: a BulkQuery that waited, submitted and polled has returned an
\* error after a failed status query, with nothing sent after it.
C22_Witness ==
    /\ ret.op = "BulkQuery" /\ ret.done /\ ret.val.err # NoErr
    /\ Len(log) >= 3
    /\ \E i \in 1..Len(log) : log[i].ev = "run" /\ log[i].st = NoErr
    /\ FailedRequest(Last(log)) /\ Last(log).ev = "poll"

(***************************************************************************)
(* The steps of BulkQuery (checked under Spec)                             *)
(***************************************************************************)
\* the positions of the requests of a kind in the log
Positions(ev) == { i \in 1..Len(log) : log[i].ev = ev }

\* the job the BulkQuery call submitted, if any
SubmittedID ==
    IF \E i \in Positions("run") : log[i].st = NoErr /\ log[i].id # NilID
    THEN log[CHOOSE i \in Positions("run") : log[i].st = NoErr /\ log[i].id # NilID].id
    ELSE NilID

\* the order of the steps of a BulkQuery call, but for which job was observed
\* COMPLETED: the submission follows the polls of the first wait, the download
\* follows a submission and a later poll that saw a job COMPLETED, the parse
\* follows a successful download, and a failed step is the last step.
BulkQueryStepOrder ==
    ret.op = "BulkQuery" =>
        /\ \A r \in Positions("run") :
             /\ r > 1 /\ log[r - 1].ev = "poll" /\ log[r - 1].st \notin InFlight \cup {"error"}
             /\ \A i \in 1..(r - 1) : log[i].ev = "poll"
        /\ \A d \in Positions("download") :
             /\ log[d].id # ""
             /\ log[d - 1].ev = "poll" /\ log[d - 1].st = "COMPLETED"
             /\ \E r \in Positions("run") : r < d - 1 /\ log[r].st = NoErr
        /\ \A p \in Positions("parse") :
             log[p - 1].ev = "download" /\ log[p - 1].st = NoErr
        /\ \A i \in 1..(Len(log) - 1) :
             ~(FailedRequest(log[i]) \/ log[i].st \in {"download", "parse"})

\* C23 (as stated): the steps of BulkQuery are in order, and the download starts
\* only after the submitted job has been observed COMPLETED.
C23_StepsInOrder ==
    /\ BulkQueryStepOrder
    /\ ret.op = "BulkQuery" =>
         \A d \in Positions("download") : log[d - 1].id = SubmittedID

(***************************************************************************)
(* Reads and writes of the remote job (checked under Spec)                 *)
(***************************************************************************)
\* GetCurrentBulkQuery, WaitForCurrentBulkQuery, ShouldGetBulkQueryResultURL
\* (GetCurrentBulkQueryResultURL is the call with a nil ID) and GetBulkQueryResult
ReadOnlyOps == {"GetCurrent", "Wait", "Should", "GetResult"}

\* C24: every step of a call of a read-only operation leaves the remote job as
\* it is and has sent status queries only, and a PostBulkQuery call sends no
\* status query, only its mutation.
C24_ReadsDoNotWrite ==
    /\ [](ret.op = "Post" => \A i \in 1..Len(log) : log[i].ev = "run")
    /\ [][ (ret'.op \in ReadOnlyOps /\ (stack' # stack \/ log' # log))
           => /\ remote' = remote /\ nextId' = nextId
              /\ \A i \in 1..Len(log') : log'[i].ev = "poll" ]_vars

\* C24 witness: a ShouldGetBulkQueryResultURL call for a job that is not the
\* current one has returned while the current job is running.
C24_Witness ==
    /\ ret.op = "Should" /\ ret.done /\ ret.val.err = "idMismatch"
    /\ Len(log) = 1 /\ log[1].ev = "poll" /\ log[1].st = "RUNNING"
    /\ remote.status = "RUNNING"

(***************************************************************************)
(* The end of the stream (checked under SpecParse)                         *)
(***************************************************************************)
\* C25: when the reading ended at a clean end of stream the parse succeeds, and
\* when it ended with another read error the parse returns an error, that read
\* error, also when records were read and reconciled; in both cases unless the
\* reconciliation of the records read fails, whose error is then returned.
C25_ReadErrorReturned ==
    (pstate.pc = "done" /\ pstate.end # "") =>
        /\ (pstate.end = "EOF" /\ pstate.err \notin ReconciliationErrs) => pstate.err = NoErr
        /\ pstate.end = "read error" =>
              /\ pstate.err # NoErr
              /\ pstate.err \notin ReconciliationErrs => pstate.err = "read error"
              /\ DOMAIN pstate.childrenLookup = {} => pstate.err = "read error"

\* C25 witness: a parent and its child were read and reconciled, and the parse
\* has returned the read error that ended the reading.
C25_Witness ==
    /\ pstate.pc = "done" /\ pstate.end = "read error" /\ pstate.err = "read error"
    /\ Len(pstate.out) = 1
    /\ pstate.out[1].fields["Metafields"] = <<[type |-> "Metafield", ID |-> GID("Metafield", "1")]>>

(***************************************************************************)
(* The wait on a service that brings every job to an end: the caller only  *)
(* calls WaitForCurrentBulkQuery, the loop goes on while it can, and a job *)
(* in flight does not stay so for ever.                                    *)
(***************************************************************************)
\* The caller starts WaitForCurrentBulkQuery.
CallWait ==
    /\ stack = <<>>
    /\ stack' = <<Frame("Wait", NilID)>>
    /\ ret' = [op |-> "Wait", arg |-> NilID, ctx |-> "live", done |-> FALSE, val |-> ZeroRv]
    /\ rv' = ZeroRv
    /\ log' = <<>>
    /\ UNCHANGED <<remote, nextId, pstate, dstate, cstate>>

InitWaitLive ==
    /\ remote \in {ZeroOp} \cup { [NewJob(1) EXCEPT !.status = st] : st \in InFlight }
    /\ nextId = IF remote = ZeroOp THEN 1 ELSE 2
    /\ stack = <<>>
    /\ rv = ZeroRv
    /\ ret = [op |-> "", arg |-> NilID, ctx |-> "live", done |-> FALSE, val |-> ZeroRv]
    /\ log = <<>>
    /\ pstate = PIdle
    /\ dstate = DIdle
    /\ cstate = CStart

NextWaitLive ==
    \/ CallWait
    \/ WaitForCurrentBulkQuery
    \/ RemoteStart
    \/ RemoteComplete
    \/ RemoteFail
    \/ RemoteCanceled
    \/ OtherSubmit

SpecWaitLive ==
    /\ InitWaitLive
    /\ [][NextWaitLive]_vars
    /\ WF_vars(WaitForCurrentBulkQuery)
    /\ WF_vars(RemoteStart)
    /\ WF_vars(RemoteComplete \/ RemoteFail)
    /\ WF_vars(RemoteCanceled)

\* the wait has seen the job in flight and is in its loop
WaitLooping == Len(stack) > 0 /\ Top.fn = "Wait" /\ Top.pc = "loop"

\* the wait has returned, without error, the terminal snapshot of its last poll
WaitReturnedTerminal ==
    /\ ret.op = "Wait" /\ ret.done /\ ret.val.err = NoErr
    /\ ret.val.q.status \in Terminal
    /\ Last(log).st = ret.val.q.status /\ Last(log).id = ret.val.q.id

\* a status query of the call has failed
PollFailed == \E i \in 1..Len(log) : log[i].st = "error"

C27_CancelReturnsNotInFlight ==
    (ret.op = "Cancel" /\ ret.done /\ ret.val.err = NoErr) => ret.val.q.status \notin InFlight

(***************************************************************************)
(* The last record of the stream (checked under SpecParse)                 *)
(***************************************************************************)
\* the number of children accumulated for the parents
NumAccumulated ==
    Cardinality({ t \in (DOMAIN pstate.childrenLookup)
                        \X ({ KnownTags[g][2] : g \in DOMAIN KnownTags })
                        \X (1..(MaxLines + 1)) :
                    /\ t[2] \in DOMAIN pstate.childrenLookup[t[1]]
                    /\ t[3] <= Len(pstate.childrenLookup[t[1]][t[2]]) })

\* the number of records of the stream: the lines read and the record, if any,
\* that ends the file without a newline
NumRecords == Len(pstate.consumed) + IF pstate.tail = NoLine THEN 0 ELSE 1

\* C28 (as stated): after a successful parse the parents of the output and the
\* children accumulated for them are as many as the records of the stream, the
\* last record counted also when no newline follows it.
C28_EveryRecordConsumed ==
    (pstate.pc = "done" /\ pstate.err = NoErr) =>
        Len(pstate.out) + NumAccumulated = NumRecords

(***************************************************************************)
(* The empty result URL (checked under Spec)                               *)
(***************************************************************************)
\* ShouldGetBulkQueryResultURL has returned an empty URL without error to
\* BulkQuery
EmptyURLResolved ==
    Running("BulkQuery", "afterShould") /\ rv.err = NoErr /\ rv.url = ""

\* C29: the step BulkQuery takes on an empty resolved URL ends the call with an
\* error and without a further request; the call has then neither downloaded
\* nor parsed anything, so nothing was written to the caller's destination.
C29_EmptyURLIsError ==
    [][ (EmptyURLResolved /\ stack' # stack)
        => /\ stack' = <<>> /\ ret'.done /\ ret'.val.err # NoErr
           /\ log' = log
           /\ \A i \in 1..Len(log') : log'[i].ev \notin {"download", "parse"}
           /\ pstate' = PIdle ]_vars

\* C29 witness: a BulkQuery whose job was seen COMPLETED has returned the error
\* of the empty URL.
C29_Witness ==
    /\ ret.op = "BulkQuery" /\ ret.done /\ ret.val.err = "emptyURL"
    /\ Last(log).ev = "poll" /\ Last(log).st = "COMPLETED"
    /\ \E i \in 1..Len(log) : log[i].ev = "run" /\ log[i].st = NoErr

(***************************************************************************)
(* graphqlclient.NewClient (part_005): the options of a call are applied   *)
(* in order, then the endpoint is built from the package-level variables.  *)
(***************************************************************************)
MaxClients == 3

apiProtocol == "https"

apiEndpoint == "graphql.json"

Option(kind, arg) == [kind |-> kind, arg |-> arg]

\* the option lists callers pass
OptionLists ==
    {<<>>,
     <<Option("WithToken", "t")>>,
     <<Option("WithVersion", "2023-01")>>,
     <<Option("WithVersion", "latest")>>,
     <<Option("WithStoreFrontVersion", "2023-01")>>,
     <<Option("WithStoreFrontVersion", "")>>,
     <<Option("WithVersion", "2023-01"), Option("WithStoreFrontVersion", "2023-01")>>}

ShopNames == {"a.myshopify.com", "b.myshopify.com"}

\* lines 26-57: what applying an option does to apiPathPrefix
ApplyOption(prefix, opt) ==
    IF opt.kind = "WithVersion"
    THEN IF opt.arg # "" /\ opt.arg # "latest" THEN "admin/api/" \o opt.arg ELSE "admin/api"
    ELSE IF opt.kind = "WithStoreFrontVersion"
         THEN IF opt.arg # "" /\ opt.arg # "latest" THEN "api/" \o opt.arg ELSE "api"
         ELSE prefix

\* lines 90-92: the options applied in order
RECURSIVE ApplyOptions(_, _)
ApplyOptions(prefix, opts) ==
    IF opts = <<>> THEN prefix
    ELSE ApplyOptions(ApplyOption(prefix, Head(opts)), Tail(opts))

\* lines 100-101
buildAPIEndpoint(shopName, prefix) ==
    apiProtocol \o "://" \o shopName \o "/" \o prefix \o "/" \o apiEndpoint

\* lines 87-98
NewClient ==
    /\ Len(cstate.built) < MaxClients
    /\ \E shopName \in ShopNames, opts \in OptionLists :
         LET prefix == ApplyOptions(cstate.apiPathPrefix, opts) IN
         cstate' = [apiPathPrefix |-> prefix,
                    built |-> Append(cstate.built,
                                     [shopName |-> shopName, opts |-> opts,
                                      url |-> buildAPIEndpoint(shopName, prefix)])]
    /\ UNCHANGED <<ctlVars, pstate, dstate>>

InitClient ==
    /\ remote = ZeroOp
    /\ nextId = 1
    /\ stack = <<>>
    /\ rv = ZeroRv
    /\ ret = [op |-> "", arg |-> NilID, ctx |-> "live", done |-> FALSE, val |-> ZeroRv]
    /\ log = <<>>
    /\ pstate = PIdle
    /\ dstate = DIdle
    /\ cstate = CStart

NextClient == NewClient

SpecClient == InitClient /\ [][NextClient]_vars

\* C30 (as stated): two clients built with the same shop name and the same
\* options have the same endpoint URL, whatever was built between them.
C30_URLFromArgumentsOnly ==
    \A i, j \in 1..Len(cstate.built) :
        (/\ cstate.built[i].shopName = cstate.built[j].shopName
         /\ cstate.built[i].opts = cstate.built[j].opts)
        => cstate.built[i].url = cstate.built[j].url

====
